---- MODULE Spec2Model ----
(***************************************************************************)
(* photo-sorter.py: a folder of image files is enumerated, each accepted   *)
(* file's EXIF metadata is read, a destination directory is computed from  *)
(* it, the file is copied there, a row is recorded, and the rows are       *)
(* written as a CSV report.                                                *)
(*                                                                         *)
(* Text is modelled as a sequence of one-character strings, a byte string  *)
(* as a sequence of integers, a path as a sequence of names relative to    *)
(* the absolute input folder.                                              *)
(***************************************************************************)
EXTENDS Integers, Sequences, FiniteSets, TLC

VARIABLES
    target,     \* what the input_folder argument refers to: "dir", "file", "missing"
    by,         \* --by
    report,     \* --report
    fs,         \* the file system below the input folder: path -> node
    pc,         \* position in main / process_folder
    entries,    \* sorted(os.listdir(infolder)) of the current run
    idx,        \* index in entries of the loop's current entry
    exif,       \* process_folder's local exif
    date,       \* process_folder's local date
    cam,        \* process_folder's local cam
    target_dir, \* process_folder's local target_dir
    rows,       \* process_folder's local rows
    status,     \* the process's exit status, -1 while it runs
    run,        \* number of the current run of process_folder
    stdout,     \* the lines printed, by kind
    log,        \* history: the reads, copies and records of the current run, in order
    fs0,        \* history: fs when the current run started
    prev        \* history: rows and fs at the end of the previous completed run

vars == <<target, by, report, fs, pc, entries, idx, exif, date, cam, target_dir,
          rows, status, run, stdout, log, fs0, prev>>

----------------------------------------------------------------------------
\* Bounds of the model.

\* Largest number of entries the input folder holds initially.
MaxFiles == 2

\* Number of times process_folder is run on the same folder.
MaxRuns == 2

----------------------------------------------------------------------------
\* Characters and text.

Digits == <<"0","1","2","3","4","5","6","7","8","9">>

Lower == <<"a","b","c","d","e","f","g","h","i","j","k","l","m","n","o","p","q","r","s","t","u","v","w","x","y","z">>

Upper == <<"A","B","C","D","E","F","G","H","I","J","K","L","M","N","O","P","Q","R","S","T","U","V","W","X","Y","Z">>

\* The other characters of the model's alphabet, with their code points.
Punct == <<" ", "!", "'", "-", ".", "/", ":", "_">>

PunctCode == <<32, 33, 39, 45, 46, 47, 58, 95>>

Range(s) == {s[i] : i \in 1..Len(s)}

IndexOf(c, s) == CHOOSE i \in 1..Len(s) : s[i] = c

IsDigit(c) == c \in Range(Digits)

IsLower(c) == c \in Range(Lower)

IsUpper(c) == c \in Range(Upper)

DigitVal(c) == IndexOf(c, Digits) - 1

\* ord(c)
Ord(c) ==
    IF IsDigit(c) THEN 47 + IndexOf(c, Digits)
    ELSE IF IsUpper(c) THEN 64 + IndexOf(c, Upper)
    ELSE IF IsLower(c) THEN 96 + IndexOf(c, Lower)
    ELSE PunctCode[IndexOf(c, Punct)]

Alphabet == Range(Digits) \cup Range(Lower) \cup Range(Upper) \cup Range(Punct)

\* c.isalnum()
isalnum(c) == IsDigit(c) \/ IsLower(c) \/ IsUpper(c)

\* c.lower()
LowerChar(c) == IF IsUpper(c) THEN Lower[IndexOf(c, Upper)] ELSE c

\* s.lower()
lower(s) == [i \in 1..Len(s) |-> LowerChar(s[i])]

\* "".join(c for c in s if c.isalnum() or c in " _-")
RECURSIVE JoinSafe(_)
JoinSafe(s) ==
    IF s = <<>> THEN <<>>
    ELSE (IF isalnum(Head(s)) \/ Head(s) \in {" ", "_", "-"} THEN <<Head(s)>> ELSE <<>>)
         \o JoinSafe(Tail(s))

\* s.strip(): the only whitespace of the alphabet is the space
RECURSIVE lstrip(_)
lstrip(s) == IF s # <<>> /\ Head(s) = " " THEN lstrip(Tail(s)) ELSE s

RECURSIVE rstrip(_)
rstrip(s) ==
    IF s # <<>> /\ s[Len(s)] = " " THEN rstrip(SubSeq(s, 1, Len(s) - 1)) ELSE s

strip(s) == rstrip(lstrip(s))

\* a < b for str: by code point, a proper prefix first
LexLess(a, b) ==
    \E k \in 1..(Len(a) + 1) :
        /\ \A i \in 1..(k - 1) : i <= Len(b) /\ a[i] = b[i]
        /\ k <= Len(b)
        /\ (k = Len(a) + 1 \/ Ord(a[k]) < Ord(b[k]))

\* The names of S in an order os.listdir may give them in: here the reverse.
RECURSIVE listdir_order(_)
listdir_order(S) ==
    IF S = {} THEN <<>>
    ELSE LET m == CHOOSE x \in S : \A y \in S : x = y \/ LexLess(y, x)
         IN  <<m>> \o listdir_order(S \ {m})

\* sorted(S) for a set of distinct str
RECURSIVE sorted(_)
sorted(S) ==
    IF S = {} THEN <<>>
    ELSE LET m == CHOOSE x \in S : \A y \in S : x = y \/ LexLess(x, y)
         IN  <<m>> \o sorted(S \ {m})

----------------------------------------------------------------------------
\* EXIF values and mappings.

\* A tag value: text, a byte string or a number; None is the absent value.
Str(s) == [k |-> "str", s |-> s]

Bytes(b) == [k |-> "bytes", b |-> b]

Num(n) == [k |-> "num", n |-> n]

None == [k |-> "none"]

\* bool(v)
Truthy(v) ==
    CASE v.k = "str" -> v.s # <<>>
      [] v.k = "bytes" -> v.b # <<>>
      [] v.k = "num" -> v.n # 0
      [] OTHER -> FALSE

\* a or b
Or(a, b) == IF Truthy(a) THEN a ELSE b

\* chr(n) for a code point of the alphabet
Chr(n) == CHOOSE c \in Alphabet : Ord(c) = n

\* b.decode(errors='ignore'): UTF-8; the bytes of the model are ASCII or 0xFF,
\* which no UTF-8 sequence holds and which is therefore dropped
RECURSIVE decode(_)
decode(b) ==
    IF b = <<>> THEN <<>>
    ELSE (IF Head(b) < 128 THEN <<Chr(Head(b))>> ELSE <<>>) \o decode(Tail(b))

\* ExifTags.TAGS, the part of it the program consults
TAGS == (36867 :> "DateTimeOriginal") @@ (306 :> "DateTime") @@ (272 :> "Model") @@ (271 :> "Make")

\* ExifTags.TAGS.get(tag, tag): a key of the decoded mapping
Key(tag) == IF tag \in DOMAIN TAGS THEN [name |-> TAGS[tag]] ELSE [id |-> tag]

\* exif.get(name)
Get(e, name) == IF [name |-> name] \in DOMAIN e THEN e[[name |-> name]] ELSE None

\* exif.get(name, '')
GetOr(e, name) == IF [name |-> name] \in DOMAIN e THEN e[[name |-> name]] ELSE Str(<<>>)

\* The empty mapping {}.
EmptyExif == [x \in {} |-> None]

\* get_exif(path), of the file's data: Image.open or _getexif raises on anything
\* but an image, and _getexif returns None for an image without EXIF
get_exif(data) ==
    IF data.fmt # "image" THEN EmptyExif
    ELSE IF DOMAIN data.raw = {} THEN EmptyExif
    ELSE [key \in {Key(t) : t \in DOMAIN data.raw} |->
            data.raw[CHOOSE t \in DOMAIN data.raw : Key(t) = key]]

----------------------------------------------------------------------------
\* datetime.strptime(t, "%Y:%m:%d %H:%M:%S").date().isoformat()

\* The character of t at position p, "" past the end.
At(t, p) == IF p >= 1 /\ p <= Len(t) THEN t[p] ELSE ""

In(c, lo, hi) == IsDigit(c) /\ DigitVal(c) >= lo /\ DigitVal(c) <= hi

\* Each directive is the regular expression _strptime compiles it to; the result
\* is the number of characters its first matching alternative takes, 0 for none.
\* Every directive here is followed by a non-digit or by the end of the pattern,
\* so the first matching alternative is the one the whole match uses.

\* %Y: \d\d\d\d
LenY(t, p) == IF \A i \in 0..3 : IsDigit(At(t, p + i)) THEN 4 ELSE 0

\* %m: 1[0-2]|0[1-9]|[1-9]
Lenm(t, p) ==
    IF At(t, p) = "1" /\ In(At(t, p + 1), 0, 2) THEN 2
    ELSE IF At(t, p) = "0" /\ In(At(t, p + 1), 1, 9) THEN 2
    ELSE IF In(At(t, p), 1, 9) THEN 1
    ELSE 0

\* %d: 3[0-1]|[1-2]\d|0[1-9]|[1-9]| [1-9]
Lend(t, p) ==
    IF At(t, p) = "3" /\ In(At(t, p + 1), 0, 1) THEN 2
    ELSE IF In(At(t, p), 1, 2) /\ IsDigit(At(t, p + 1)) THEN 2
    ELSE IF At(t, p) = "0" /\ In(At(t, p + 1), 1, 9) THEN 2
    ELSE IF In(At(t, p), 1, 9) THEN 1
    ELSE IF At(t, p) = " " /\ In(At(t, p + 1), 1, 9) THEN 2
    ELSE 0

\* %H: 2[0-3]|[0-1]\d|\d
LenH(t, p) ==
    IF At(t, p) = "2" /\ In(At(t, p + 1), 0, 3) THEN 2
    ELSE IF In(At(t, p), 0, 1) /\ IsDigit(At(t, p + 1)) THEN 2
    ELSE IF IsDigit(At(t, p)) THEN 1
    ELSE 0

\* %M: [0-5]\d|\d
LenM(t, p) ==
    IF In(At(t, p), 0, 5) /\ IsDigit(At(t, p + 1)) THEN 2
    ELSE IF IsDigit(At(t, p)) THEN 1
    ELSE 0

\* %S: 6[0-1]|[0-5]\d|\d
LenS(t, p) ==
    IF At(t, p) = "6" /\ In(At(t, p + 1), 0, 1) THEN 2
    ELSE IF In(At(t, p), 0, 5) /\ IsDigit(At(t, p + 1)) THEN 2
    ELSE IF IsDigit(At(t, p)) THEN 1
    ELSE 0

\* The blank of the pattern: \s+
RECURSIVE LenWs(_, _)
LenWs(t, p) == IF At(t, p) = " " THEN 1 + LenWs(t, p + 1) ELSE 0

\* A literal character of the pattern.
LenLit(t, p, c) == IF At(t, p) = c THEN 1 ELSE 0

\* int(t[p : p + n]), a leading blank skipped
RECURSIVE IntAt(_, _, _)
IntAt(t, p, n) ==
    IF n = 0 THEN 0
    ELSE IF t[p] = " " THEN IntAt(t, p + 1, n - 1)
    ELSE IntAt(t, p, n - 1) * 10 + DigitVal(t[p + n - 1])

IsLeap(y) == y % 4 = 0 /\ (y % 100 # 0 \/ y % 400 = 0)

DaysInMonth(y, m) ==
    IF m = 2 THEN (IF IsLeap(y) THEN 29 ELSE 28)
    ELSE IF m \in {4, 6, 9, 11} THEN 30
    ELSE 31

\* The zero-padded decimal of n in w digits.
RECURSIVE Pad(_, _)
Pad(n, w) == IF w = 0 THEN <<>> ELSE Pad(n \div 10, w - 1) \o <<Digits[(n % 10) + 1]>>

\* date.isoformat()
isoformat(y, m, d) == Pad(y, 4) \o <<"-">> \o Pad(m, 2) \o <<"-">> \o Pad(d, 2)

\* strptime of the text t: [ok |-> FALSE] where it raises ValueError (no match,
\* unconverted data, or a date or time datetime() refuses), else the date
strptime(t) ==
    LET nY == LenY(t, 1)
        p1 == 1 + nY
        c1 == LenLit(t, p1, ":")
        p2 == p1 + c1
        nm == Lenm(t, p2)
        p3 == p2 + nm
        c2 == LenLit(t, p3, ":")
        p4 == p3 + c2
        nd == Lend(t, p4)
        p5 == p4 + nd
        ws == LenWs(t, p5)
        p6 == p5 + ws
        nH == LenH(t, p6)
        p7 == p6 + nH
        c3 == LenLit(t, p7, ":")
        p8 == p7 + c3
        nM == LenM(t, p8)
        p9 == p8 + nM
        c4 == LenLit(t, p9, ":")
        p10 == p9 + c4
        nS == LenS(t, p10)
        end == p10 + nS
    IN  IF \E n \in {nY, c1, nm, c2, nd, ws, nH, c3, nM, c4, nS} : n = 0
        THEN [ok |-> FALSE]
        ELSE IF end # Len(t) + 1 THEN [ok |-> FALSE]
        ELSE LET y == IntAt(t, 1, nY)
                 m == IntAt(t, p2, nm)
                 d == IntAt(t, p4, nd)
                 S == IntAt(t, p10, nS)
             IN  IF y < 1 \/ d > DaysInMonth(y, m) \/ S > 59
                 THEN [ok |-> FALSE]
                 ELSE [ok |-> TRUE, iso |-> isoformat(y, m, d)]

----------------------------------------------------------------------------
\* The program's helpers.

\* Line 26 without its fallback to DateTime.
DateValueNoFallback(e) == Or(Get(e, "DateTimeOriginal"), Str(<<>>))

\* get_date_from_exif line 26: the value that is parsed
DateValue(e) == Or(Or(Get(e, "DateTimeOriginal"), Get(e, "DateTime")), Str(<<>>))

\* get_date_from_exif(exif)
get_date_from_exif(e) ==
    LET dt0 == DateValue(e)
        dt == IF dt0.k = "bytes" THEN Str(decode(dt0.b)) ELSE dt0
    IN  IF ~Truthy(dt) THEN <<>>
        ELSE IF dt.k # "str" THEN <<>>          \* strptime raises TypeError, caught
        ELSE IF strptime(dt.s).ok THEN strptime(dt.s).iso
        ELSE <<>>                               \* ValueError, caught

\* get_camera_from_exif(exif)
get_camera_from_exif(e) == Or(GetOr(e, "Model"), GetOr(e, "Make"))

\* fname.rsplit('.', 1): <<fname>> without a dot, else <<before, after>> the last one
rsplit1(s) ==
    IF "." \notin Range(s) THEN <<s>>
    ELSE LET k == CHOOSE i \in 1..Len(s) : s[i] = "." /\ \A j \in (i + 1)..Len(s) : s[j] # "."
         IN  <<SubSeq(s, 1, k - 1), SubSeq(s, k + 1, Len(s))>>

ImageExts ==
    { <<"j","p","g">>, <<"j","p","e","g">>, <<"p","n","g">>, <<"t","i","f","f">>,
      <<"h","e","i","c">> }

\* is_image_file without lower().
is_image_file_case_sensitive(fname) ==
    LET ext == rsplit1(fname)
    IN  IF Len(ext) = 1 THEN FALSE ELSE ext[2] \in ImageExts

\* is_image_file accepting every name with an extension.
is_image_file_any_extension(fname) == Len(rsplit1(lower(fname))) # 1

\* is_image_file(fname)
is_image_file(fname) ==
    LET ext == rsplit1(lower(fname))
    IN  IF Len(ext) = 1 THEN FALSE ELSE ext[2] \in ImageExts

----------------------------------------------------------------------------
\* The file system below the input folder.

Dir == [kind |-> "dir"]

File(data) == [kind |-> "file", data |-> data]

\* os.path.isfile(path)
isfile(f, path) == path \in DOMAIN f /\ f[path].kind = "file"

\* os.path.isdir(path)
isdir(f, path) == path \in DOMAIN f /\ f[path].kind = "dir"

\* os.listdir(infolder)
listdir(f) == {path[1] : path \in {q \in DOMAIN f : Len(q) = 1}}

\* The non-empty prefixes of a path.
Prefixes(path) == {SubSeq(path, 1, n) : n \in 1..Len(path)}

\* ensure_dir(path): os.makedirs(path, exist_ok=True)
ensure_dir(f, path) ==
    [q \in DOMAIN f \cup Prefixes(path) |-> IF q \in DOMAIN f THEN f[q] ELSE Dir]

\* shutil.copy2(src, dst): dst is created or overwritten with the content of src
copy2(f, src, dst) ==
    [q \in DOMAIN f \cup {dst} |-> IF q = dst THEN File(f[src].data) ELSE f[q]]

\* open(path, 'w') with the text written and the file closed
write_file(f, path, data) ==
    [q \in DOMAIN f \cup {path} |-> IF q = path THEN File(data) ELSE f[q]]

\* 'sorted_by_' + by, the one component of out_base below infolder
out_base(mode) == <<"s","o","r","t","e","d","_","b","y","_">> \o mode

unsorted == <<"u","n","s","o","r","t","e","d">>

UnknownCamera == <<"U","n","k","n","o","w","n","C","a","m","e","r","a">>

ByDate == <<"d","a","t","e">>

ByCamera == <<"c","a","m","e","r","a">>

\* Line 64 without strip().
safe_cam_no_strip(c) == IF JoinSafe(c) # <<>> THEN JoinSafe(c) ELSE UnknownCamera

\* line 64
safe_cam(c) ==
    LET joined == strip(JoinSafe(c))
    IN  IF joined # <<>> THEN joined ELSE UnknownCamera

\* Line 64 raises for a camera value that is no text: iterating a number is a
\* TypeError, and the items of a byte string are integers, without isalnum.
SafeCamRaises(c) == c.k # "str"

\* Lines 61-67 with the tests of `by` left out.
SubfolderIgnoringMode(mode, d, c) ==
    IF d # <<>> THEN d
    ELSE IF Truthy(c) /\ c.k = "str" THEN safe_cam(c.s)
    ELSE unsorted

\* lines 61-67: the subfolder of out_base
Subfolder(mode, d, c) ==
    IF mode = ByDate /\ d # <<>> THEN d
    ELSE IF mode = ByCamera /\ Truthy(c) THEN safe_cam(c.s)
    ELSE unsorted

\* lines 74-80
Row(entry, d, c, dest) ==
    [filename |-> entry, date |-> d, camera |-> c, orig_path |-> <<entry>>, dest_path |-> dest]

\* line 86
fieldnames == <<"filename", "date", "camera", "orig_path", "dest_path">>

\* The report as csv.DictWriter writes it: the header row, then a row per record.
Csv(rs) == [fmt |-> "csv", header |-> fieldnames, records |-> rs]

----------------------------------------------------------------------------
\* The inputs the model draws from.

N_A == <<"a",".","j","p","g">>

N_B == <<"b",".","j","p","e","g">>

N_BP == <<"B",".","P","N","G">>

N_GIF == <<"c",".","t","a","r",".","g","i","f">>

N_NOEXT == <<"n","o","e","x","t">>

N_REPORT == <<"r","e","p","o","r","t",".","c","s","v">>

T_OK == <<"2","0","2","0",":","0","5",":","0","1"," ","1","0",":","0","0",":","0","0">>

T_OK2 == <<"2","0","2","1",":","1","2",":","3","1"," ","2","3",":","5","9",":","5","9">>

T_LENIENT == <<"2","0","2","0",":","5",":","1"," ","1",":","2",":","3">>

T_FEB29 == <<"2","0","2","1",":","0","2",":","2","9"," ","1","0",":","0","0",":","0","0">>

T_DASH == <<"2","0","2","0","-","0","5","-","0","1"," ","1","0",":","0","0",":","0","0">>

\* b"2020:05:01 10:00:00"
B_OK == <<50,48,50,48,58,48,53,58,48,49,32,49,48,58,48,48,58,48,48>>

\* b"2020:05\xff:01 10:00:00"
B_FF == <<50,48,50,48,58,48,53,255,58,48,49,32,49,48,58,48,48,58,48,48>>

\* b"Canon"
B_CANON == <<67,97,110,111,110>>

CAM_PUNCT == <<"C","a","n","o","n","/","E","O","S","-","5","D","!">>

CAM_PAD == <<" ","a","_","b"," ">>

CAM_BANG == <<"!","!","!">>

Modes == {ByDate, ByCamera}

\* The names an entry of the input folder may have.
NamePool == {N_A, N_B, N_BP, N_GIF, N_NOEXT}

\* The report names: the default, the name of an image of the folder, and a name
\* without an extension.
ReportPool == {N_REPORT, N_A, N_NOEXT}

\* The values a date tag may hold.
DateVals ==
    { Str(T_OK), Str(T_OK2), Str(T_LENIENT), Str(T_FEB29), Str(T_DASH), Str(<<>>),
      Bytes(B_OK), Bytes(B_FF), Bytes(<<255>>), Num(0), Num(5) }

\* The values a camera tag may hold.
CamVals ==
    { Str(CAM_PUNCT), Str(CAM_PAD), Str(CAM_BANG), Str(<<>>), Bytes(B_CANON),
      Num(0), Num(7) }

\* The raw tag tables with the tags of T drawn from V.
Raws(T, V) == UNION {[S -> V] : S \in SUBSET T}

Image(raw) == [fmt |-> "image", raw |-> raw]

\* A file PIL cannot open.
Corrupt == [fmt |-> "corrupt"]

\* An image with a date, a camera name with punctuation and a tag TAGS does not name.
ImgA == Image((36867 :> Str(T_OK)) @@ (272 :> Str(CAM_PUNCT)) @@ (65000 :> Num(1)))

\* An image whose date does not parse and whose Model is a byte string.
ImgB == Image((306 :> Str(T_DASH)) @@ (272 :> Bytes(B_CANON)))

\* What an entry of the input folder may be.
NodePool == {File(Corrupt), File(ImgA), File(ImgB), Dir}

\* The images of the single-file folders: every pair of date tags, every pair
\* of camera tags.
MetaPool ==
    {Image(r @@ (272 :> Str(CAM_PAD))) : r \in Raws({36867, 306}, DateVals)}
    \cup {Image(r @@ (306 :> Str(T_OK2))) : r \in Raws({272, 271}, CamVals)}

\* A copy left under sorted_by_<mode>/unsorted by an earlier use of the folder.
Stale(mode) ==
    (<<out_base(mode)>> :> Dir) @@ (<<out_base(mode), unsorted>> :> Dir)
    @@ (<<out_base(mode), unsorted, N_A>> :> File(Corrupt))

Folders ==
    UNION {[{<<n>> : n \in S} -> NodePool] : S \in {T \in SUBSET NamePool : Cardinality(T) <= MaxFiles}}

NoFs == [q \in {} |-> Dir]

NoRun == [rows |-> <<>>, fs |-> NoFs]

InitLocals ==
    /\ pc = "main"
    /\ entries = <<>>
    /\ idx = 0
    /\ exif = EmptyExif
    /\ date = <<>>
    /\ cam = None
    /\ target_dir = <<>>
    /\ rows = <<>>
    /\ status = -1
    /\ run = 1
    /\ stdout = <<>>
    /\ log = <<>>
    /\ fs0 = fs
    /\ prev = NoRun

\* The input folder argument names no directory.
InitNoDir ==
    /\ target \in {"file", "missing"}
    /\ by \in Modes
    /\ report = N_REPORT
    /\ fs = NoFs

\* A folder of up to MaxFiles entries.
InitFolder ==
    /\ target = "dir"
    /\ by \in Modes
    /\ report \in ReportPool
    /\ \E f \in Folders, stale \in BOOLEAN : fs = IF stale THEN f @@ Stale(by) ELSE f

\* A folder of one image, over the metadata it may hold.
InitMeta ==
    /\ target = "dir"
    /\ by \in Modes
    /\ report = N_REPORT
    /\ \E d \in MetaPool : fs = (<<N_A>> :> File(d))

Init == (InitNoDir \/ InitFolder \/ InitMeta) /\ InitLocals

----------------------------------------------------------------------------
\* main and process_folder.

full == <<entries[idx]>>

dest == target_dir \o <<entries[idx]>>

Raise ==
    /\ pc' = "raised"
    /\ status' = 1

\* lines 101-103
MainReject ==
    /\ pc = "main"
    /\ target # "dir"
    /\ stdout' = Append(stdout, [line |-> "Input folder doesn't exist:"])
    /\ status' = 1
    /\ pc' = "exited"
    /\ UNCHANGED <<target, by, report, fs, entries, idx, exif, date, cam, target_dir,
                   rows, run, log, fs0, prev>>

\* lines 101, 104
MainCall ==
    /\ pc = "main"
    /\ target = "dir"
    /\ pc' = "process_folder"
    /\ UNCHANGED <<target, by, report, fs, entries, idx, exif, date, cam, target_dir,
                   rows, status, run, stdout, log, fs0, prev>>

\* lines 49-54
Start ==
    /\ pc = "process_folder"
    /\ fs' = ensure_dir(fs, <<out_base(by)>>)
    /\ rows' = <<>>
    /\ entries' = sorted(listdir(fs'))
    /\ idx' = 1
    /\ fs0' = fs
    /\ log' = <<>>
    /\ pc' = "loop"
    /\ UNCHANGED <<target, by, report, exif, date, cam, target_dir, status, run, stdout, prev>>

\* lines 55-57
Skip ==
    /\ pc = "loop"
    /\ idx <= Len(entries)
    /\ ~isfile(fs, full) \/ ~is_image_file(entries[idx])
    /\ idx' = idx + 1
    /\ UNCHANGED <<target, by, report, fs, pc, entries, exif, date, cam, target_dir,
                   rows, status, run, stdout, log, fs0, prev>>

\* lines 55-60
ReadMetadata ==
    /\ pc = "loop"
    /\ idx <= Len(entries)
    /\ isfile(fs, full) /\ is_image_file(entries[idx])
    /\ exif' = get_exif(fs[full].data)
    /\ date' = get_date_from_exif(exif')
    /\ cam' = get_camera_from_exif(exif')
    /\ log' = Append(log, <<"read", entries[idx]>>)
    /\ pc' = "classify"
    /\ UNCHANGED <<target, by, report, fs, entries, idx, target_dir, rows, status, run,
                   stdout, fs0, prev>>

\* lines 61-67
Classify ==
    /\ pc = "classify"
    /\ ~(by = ByCamera /\ Truthy(cam) /\ SafeCamRaises(cam))
    /\ target_dir' = <<out_base(by), Subfolder(by, date, cam)>>
    /\ pc' = "copy"
    /\ UNCHANGED <<target, by, report, fs, entries, idx, exif, date, cam, rows, status,
                   run, stdout, log, fs0, prev>>

\* line 64 raising: the exception leaves process_folder and main
ClassifyRaise ==
    /\ pc = "classify"
    /\ by = ByCamera /\ Truthy(cam) /\ SafeCamRaises(cam)
    /\ Raise
    /\ UNCHANGED <<target, by, report, fs, entries, idx, exif, date, cam, target_dir,
                   rows, run, stdout, log, fs0, prev>>

\* lines 69-72
Copy ==
    /\ pc = "copy"
    /\ fs' = copy2(ensure_dir(fs, target_dir), full, dest)
    /\ log' = Append(log, <<"copy", entries[idx]>>)
    /\ pc' = "record"
    /\ UNCHANGED <<target, by, report, entries, idx, exif, date, cam, target_dir, rows,
                   status, run, stdout, fs0, prev>>

\* lines 74-81
Record ==
    /\ pc = "record"
    /\ rows' = Append(rows, Row(entries[idx], date, cam, dest))
    /\ stdout' = Append(stdout, [line |-> "[+]", entry |-> entries[idx], rel |-> dest])
    /\ log' = Append(log, <<"record", entries[idx]>>)
    /\ idx' = idx + 1
    /\ pc' = "loop"
    /\ UNCHANGED <<target, by, report, fs, entries, exif, date, cam, target_dir, status,
                   run, fs0, prev>>

\* lines 83-93, and main returning
WriteReport ==
    /\ pc = "loop"
    /\ idx > Len(entries)
    /\ ~isdir(fs, <<report>>)
    /\ fs' = write_file(fs, <<report>>, Csv(rows))
    /\ stdout' = stdout \o <<[line |-> "Report written to:", path |-> <<report>>],
                              [line |-> "Sorted output folder:", path |-> <<out_base(by)>>]>>
    /\ status' = 0
    /\ pc' = "done"
    /\ UNCHANGED <<target, by, report, entries, idx, exif, date, cam, target_dir, rows,
                   run, log, fs0, prev>>

\* line 85 raising: the report path is a directory
WriteReportRaise ==
    /\ pc = "loop"
    /\ idx > Len(entries)
    /\ isdir(fs, <<report>>)
    /\ Raise
    /\ UNCHANGED <<target, by, report, fs, entries, idx, exif, date, cam, target_dir,
                   rows, run, stdout, log, fs0, prev>>

\* The program is run again on the same folder with the same arguments.
Rerun ==
    /\ pc = "done"
    /\ run < MaxRuns
    /\ run' = run + 1
    /\ prev' = [rows |-> rows, fs |-> fs]
    /\ status' = -1
    /\ pc' = "main"
    /\ UNCHANGED <<target, by, report, fs, entries, idx, exif, date, cam, target_dir,
                   rows, stdout, log, fs0>>

Next ==
    \/ MainReject
    \/ MainCall
    \/ Start
    \/ Skip
    \/ ReadMetadata
    \/ Classify
    \/ ClassifyRaise
    \/ Copy
    \/ Record
    \/ WriteReport
    \/ WriteReportRaise
    \/ Rerun

Spec == Init /\ [][Next]_vars

----------------------------------------------------------------------------
\* Vocabulary of the properties.

Terminated == pc \in {"done", "exited", "raised"}

\* The extension of n, compared case-insensitively, is one of the five: n ends
\* with a dot followed by it.
HasImageExtension(n) ==
    \E e \in ImageExts :
        /\ Len(n) > Len(e)
        /\ \A i \in 1..Len(e) : LowerChar(n[Len(n) - Len(e) + i]) = e[i]
        /\ n[Len(n) - Len(e)] = "."

\* The entries of the input folder, as the run found it, that are regular files
\* with an image extension.
AcceptedFiles == {n \in listdir(fs0) : isfile(fs0, <<n>>) /\ HasImageExtension(n)}

RowsSet == Range(rows)

Events(kind) == {e[2] : e \in {x \in Range(log) : x[1] = kind}}

\* The position in the log of an event.
Pos(kind, n) == CHOOSE i \in 1..Len(log) : log[i] = <<kind, n>>

\* "2020-05-01"
ISO_OK == <<"2","0","2","0","-","0","5","-","0","1">>

\* "CanonEOS-5D"
CAM_SAFE == <<"C","a","n","o","n","E","O","S","-","5","D">>

\* The data of the file a row was made from, as the run found it.
DataOf(r) == fs0[r.orig_path].data

\* The metadata holds no date: the file is no readable image, or it has neither tag.
NoDateTag(data) ==
    \/ data.fmt # "image"
    \/ DOMAIN data.raw \cap {36867, 306} = {}

----------------------------------------------------------------------------
\* C1: in mode=date every file processed is copied to
\* sorted_by_date/<date>/<filename> when a date was derived and to
\* sorted_by_date/unsorted/<filename> when none was (no readable metadata, no
\* date tag, no parseable value); the camera value plays no part.
C1_DateDestination ==
    by = ByDate =>
        \A r \in RowsSet :
            /\ r.dest_path =
                   <<out_base(ByDate), IF r.date # <<>> THEN r.date ELSE unsorted, r.filename>>
            /\ isfile(fs, r.dest_path)
            /\ NoDateTag(DataOf(r)) => r.date = <<>> /\ r.dest_path[2] = unsorted
            /\ r.date # <<>> => Len(r.date) = 10 /\ r.date[5] = "-" /\ r.date[8] = "-"

C1_Witness ==
    /\ pc = "done"
    /\ by = ByDate
    /\ \E r \in RowsSet : r.dest_path = <<out_base(ByDate), ISO_OK, r.filename>>
                           /\ Truthy(r.camera)
    /\ \E r \in RowsSet : r.dest_path[2] = unsorted

\* The characters a camera folder may hold.
AllowedChar(c) == c \in Range(Digits) \cup Range(Lower) \cup Range(Upper) \cup {" ", "_", "-"}

\* The camera text with the other characters removed and the blanks at both ends
\* trimmed, UnknownCamera if nothing is left.
Sanitized(text) ==
    LET kept == SelectSeq(text, AllowedChar)
        solid == {i \in 1..Len(kept) : kept[i] # " "}
    IN  IF solid = {} THEN UnknownCamera
        ELSE SubSeq(kept, CHOOSE i \in solid : \A j \in solid : i <= j,
                          CHOOSE i \in solid : \A j \in solid : i >= j)

\* C2: in mode=camera every file processed goes to the subfolder named by the
\* sanitized camera string (only alphanumerics, blanks, _ and -, trimmed;
\* Canon/EOS-5D! gives CanonEOS-5D; UnknownCamera if nothing is left), and to
\* unsorted when the derived camera value is empty.
C2_CameraDestination ==
    by = ByCamera =>
        \A r \in RowsSet :
            /\ r.dest_path[1] = out_base(ByCamera) /\ r.dest_path[3] = r.filename
            /\ Len(r.dest_path) = 3
            /\ isfile(fs, r.dest_path)
            /\ Truthy(r.camera) =>
                   /\ r.camera.k = "str"
                   /\ r.dest_path[2] = Sanitized(r.camera.s)
                   /\ \A i \in 1..Len(r.dest_path[2]) : AllowedChar(r.dest_path[2][i])
                   /\ r.camera.s = CAM_PUNCT => r.dest_path[2] = CAM_SAFE
            /\ ~Truthy(r.camera) => r.dest_path[2] = unsorted

C2_Witness ==
    /\ pc = "done"
    /\ by = ByCamera
    /\ \E r \in RowsSet : r.camera = Str(CAM_PUNCT) /\ r.dest_path[2] = CAM_SAFE

\* C3: after a completed run the files copied and the filenames of the report
\* are exactly the entries of the input folder that are regular files with an
\* image extension; no other entry is copied or reported.
C3_ExactlyTheImages ==
    pc = "done" =>
        /\ {r.filename : r \in RowsSet} = AcceptedFiles
        /\ Events("copy") = AcceptedFiles
        /\ \A n \in AcceptedFiles : \E r \in RowsSet : r.filename = n /\ isfile(fs, r.dest_path)
        /\ isfile(fs, <<report>>)
        /\ fs[<<report>>].data.fmt = "csv"
        /\ {r.filename : r \in Range(fs[<<report>>].data.records)} = AcceptedFiles
        /\ \A q \in DOMAIN fs :
               (Len(q) > 1 /\ (q \notin DOMAIN fs0 \/ fs[q] # fs0[q]))
                   => q[Len(q)] \in AcceptedFiles \/ fs[q] = Dir

C3_Witness ==
    /\ pc = "done"
    /\ N_BP \in AcceptedFiles
    /\ \E n \in listdir(fs0) : isfile(fs0, <<n>>) /\ n \notin AcceptedFiles
    /\ Len(rows) = 1

\* C4: the files are processed one at a time in sorted filename order: when a
\* file is read, every accepted file sorting before it has been copied and
\* recorded; the rows are in that order, one per file, and are what the report
\* holds after its header.
C4_SortedOrder ==
    /\ \A i, j \in 1..Len(rows) : i < j => LexLess(rows[i].filename, rows[j].filename)
    /\ \A b \in Events("read") : \A a \in AcceptedFiles :
           LexLess(a, b) =>
               /\ a \in Events("copy") /\ Pos("copy", a) < Pos("read", b)
               /\ a \in Events("record") /\ Pos("record", a) < Pos("read", b)
               /\ Pos("read", a) < Pos("copy", a) /\ Pos("copy", a) < Pos("record", a)
    /\ pc = "done" =>
           /\ fs[<<report>>].data = [fmt |-> "csv", header |-> fieldnames, records |-> rows]
           /\ Len(rows) = Cardinality(AcceptedFiles)
           /\ \A i \in 1..Len(rows) : log[3 * i] = <<"record", rows[i].filename>>

C4_Witness ==
    /\ pc = "done"
    /\ Len(rows) = 2
    /\ rows[1].filename = N_BP
    /\ rows[2].filename = N_A

\* C5: when a run has completed, the file at each row's dest_path exists and
\* has the content of the file at its orig_path, for any report filename.
C5_RoundTrip ==
    pc = "done" =>
        \A r \in RowsSet :
            /\ isfile(fs, r.dest_path)
            /\ isfile(fs, r.orig_path)
            /\ fs[r.dest_path].data = fs[r.orig_path].data

\* C6: after the run every accepted file is at its original path with the
\* content it had before the run, for any report filename.
C6_OriginalsUntouched ==
    \A n \in AcceptedFiles : isfile(fs, <<n>>) /\ fs[<<n>>] = fs0[<<n>>]

\* C7: an input folder argument that names no directory ends the program with
\* status 1, an error printed and nothing written; a directory ends it with
\* status 0 (a report path that cannot be opened is set aside).
C7_ExitStatus ==
    Terminated =>
        /\ target # "dir" =>
               status = 1 /\ fs = NoFs /\ Len(stdout) = 1
               /\ stdout[1].line = "Input folder doesn't exist:"
        /\ (target = "dir" /\ ~isdir(fs, <<report>>)) => status = 0

\* C8: no file's metadata aborts the run: the loop never raises, whatever
\* the tags hold, in both modes.
C8_NoPerFileAbort ==
    ~(pc = "raised" /\ idx <= Len(entries))

\* The text a date value is parsed as, if it is text or a byte string.
IsText(v) == v.k \in {"str", "bytes"}

TextOf(v) == IF v.k = "bytes" THEN decode(v.b) ELSE v.s

\* The ISO date of a tag value, empty if it is absent, no text, or does not parse.
IsoOf(v) == IF IsText(v) /\ strptime(TextOf(v)).ok THEN strptime(TextOf(v)).iso ELSE <<>>

\* t is written exactly as YYYY:MM:DD HH:MM:SS.
Canonical(t) ==
    /\ Len(t) = 19
    /\ \A i \in {5, 8, 14, 17} : t[i] = ":"
    /\ t[11] = " "
    /\ \A i \in (1..19) \ {5, 8, 11, 14, 17} : t[i] \in Range(Digits)

\* The value get_date_from_exif parses: DateTimeOriginal unless it is absent or
\* empty, and DateTime then.
Selected(e) ==
    IF Truthy(Get(e, "DateTimeOriginal")) THEN Get(e, "DateTimeOriginal")
    ELSE Get(e, "DateTime")

\* C9 as stated: the date is that of DateTimeOriginal when that value parses,
\* otherwise that of DateTime when that one parses, otherwise empty.
C9_FallbackWhenUnparseable ==
    date = IF IsoOf(Get(exif, "DateTimeOriginal")) # <<>>
           THEN IsoOf(Get(exif, "DateTimeOriginal"))
           ELSE IsoOf(Get(exif, "DateTime"))

\* C9 amended: DateTime is read only when DateTimeOriginal is absent or empty;
\* the date is the ISO date of the value read (decoded if it is a byte string)
\* when it parses, and empty otherwise, also when it is no text.
C9_DateDerivation ==
    LET v == Selected(exif)
    IN  /\ date = IsoOf(v)
        /\ date # <<>> =>
               /\ Len(date) = 10 /\ date[5] = "-" /\ date[8] = "-"
               /\ \A i \in (1..10) \ {5, 8} : date[i] \in Range(Digits)
        /\ (date # <<>> /\ Canonical(TextOf(v))) =>
               date = SubSeq(TextOf(v), 1, 4) \o <<"-">> \o SubSeq(TextOf(v), 6, 7)
                      \o <<"-">> \o SubSeq(TextOf(v), 9, 10)
        /\ v \in {Str(T_OK), Bytes(B_OK), Bytes(B_FF), Str(T_LENIENT)} => date = ISO_OK
        /\ v \in {Str(T_FEB29), Str(T_DASH), Num(5), None} => date = <<>>

\* DateTimeOriginal does not parse, DateTime does, and no date is derived.
C9_Witness ==
    /\ pc = "classify"
    /\ Get(exif, "DateTimeOriginal") = Str(T_DASH)
    /\ Get(exif, "DateTime") = Str(T_OK)
    /\ date = <<>>

\* C10: a second run with the same mode and a report name without an image
\* extension processes the same files and leaves the folder, the sorted tree
\* and the report as the first run left them; the first run's directory and
\* report are not taken as inputs.
C10_RerunIdempotent ==
    (pc = "done" /\ run > 1 /\ ~HasImageExtension(report)) =>
        /\ rows = prev.rows
        /\ fs = prev.fs
        /\ \A r \in RowsSet : r.filename \notin {report, out_base(by)}
        /\ \A n \in Events("read") : n \notin {report, out_base(by)}

C10_Witness ==
    /\ pc = "done"
    /\ run = 2
    /\ report = N_REPORT
    /\ Len(rows) = 2
    /\ isfile(prev.fs, <<N_REPORT>>)

====
